---- MODULE Spec2Model ----
(***************************************************************************)
(* A model of the task manager's storage core (src/main.py): the id        *)
(* registry `uids` and create_id, the Task record with todict/fromdict,    *)
(* and Storage (construction, load_tasks, add_task, remove_task,           *)
(* find_task, complete, uncomplete, add_due_date, sync, delete_over_due).  *)
(*                                                                         *)
(* One invocation of the program is a process p: it has its own memory     *)
(* (tasks[p], uids[p]) and shares the tasks file with the other            *)
(* invocations.  A datetime is a number of half days since                 *)
(* 2024-01-01T00:00:00; None is <<>> and a present value x is <<x>>.       *)
(* A JSON object is a function from the keys it holds to their values, so  *)
(* an absent key is a key outside its DOMAIN.  An invocation is a short    *)
(* command, so datetime.now() keeps one value through a run; runs differ   *)
(* in it.  Sync is two steps, its open (which cuts the file) and its       *)
(* write, because other invocations and failures come between them.        *)
(***************************************************************************)
EXTENDS Integers, Sequences, FiniteSets, TLC

VARIABLES
    file,       \* the tasks file: [kind, recs, size]
    now,        \* datetime.now(), the same all through a run
    pc,         \* pc[p]: where invocation p stands
    tasks,      \* tasks[p]: Storage.tasks
    uids,       \* uids[p]: the module-level set of taken ids
    op,         \* op[p]: the last operation called and its arguments
    ret,        \* ret[p]: how the last operation ended
    printed,    \* printed[p]: what load_tasks printed
    retries,    \* retries[p]: collisions met by the running create_id
    budget,     \* budget[p]: operations invocation p may still start
    last_writer \* the invocation whose sync wrote the file last (0: none)

vars == <<file, now, pc, tasks, uids, op, ret, printed, retries, budget,
          last_writer>>

----------------------------------------------------------------------------
(* Bounds of the model *)

MaxOps == 2         \* operations of one invocation (single-invocation runs)
MaxRetries == 1     \* collisions one create_id call may meet

Procs == {1, 2}

None == <<>>
Some(x) == <<x>>

\* Ids random.choices can draw (two of the 62^6), names and descriptions.
IDS == {"aaaaaa", "bbbbbb"}
Names == {"n1"}
Descriptions == {"d1"}

\* Datetimes, in half days since 2024-01-01T00:00:00.
Times == 0 .. 9
\* Due dates the commands are given.
DueInputs == {None, Some(1), Some(2)}
\* The clock of a run: noon of 2024-01-03 or midnight of 2024-01-04.
NowInputs == {5, 6}

----------------------------------------------------------------------------
(* datetime *)

\* datetime.isoformat(): "YYYY-MM-DDTHH:MM:SS"
isoformat(t) ==
    "2024-01-0" \o ToString((t \div 2) + 1) \o "T"
        \o (IF t % 2 = 0 THEN "00" ELSE "12") \o ":00:00"

\* datetime.fromisoformat(s) raises ValueError unless s is an ISO string.
is_iso(s) == \E t \in Times : isoformat(t) = s
fromisoformat(s) == CHOOSE t \in Times : isoformat(t) = s

\* Faulty variant: timedelta(days=2).
due_date_threshold_two_days(n) == ((n \div 2) - 2) * 2

\* datetime.combine(datetime.now().date() - timedelta(days=1), datetime.min.time())
due_date_threshold(n) == ((n \div 2) - 1) * 2

----------------------------------------------------------------------------
(* Task *)

\* Faulty variant: a new task starts completed.
Task_completed(name, description, due_date, task_id) ==
    [task_id |-> task_id, name |-> name, description |-> description,
     completed |-> TRUE, due_date |-> due_date]

\* Task.__init__ with the id already decided (task_id or create_id()).
Task(name, description, due_date, task_id) ==
    [task_id |-> task_id, name |-> name, description |-> description,
     completed |-> FALSE, due_date |-> due_date]

\* Faulty variant: the due date is written without its time of day.
todict_date_only(task) ==
    [id |-> task.task_id, name |-> task.name,
     description |-> task.description, completed |-> task.completed,
     due_date |-> IF task.due_date # None
                  THEN Some(isoformat(2 * (task.due_date[1] \div 2)))
                  ELSE None]

\* Task.todict
todict(task) ==
    [id |-> task.task_id, name |-> task.name,
     description |-> task.description, completed |-> task.completed,
     due_date |-> IF task.due_date # None
                  THEN Some(isoformat(task.due_date[1])) ELSE None]

\* Python truthiness of a JSON value that may be null: null and "" are falsy.
truthy(v) == v # None /\ v[1] # ""

\* Task.fromdict(dict), where `draw` is the id create_id() returns if it is
\* called and `u` is uids before the call.  The lookups are made in the
\* order the code makes them: due_date, name, description, id, completed.
\* err is the exception raised ("none": no exception); stuck says that
\* create_id() was called and cannot return `draw`.
fromdict(dict, draw, u) ==
    LET has(k) == k \in DOMAIN dict
        failed(e, uu) == [err |-> e, stuck |-> FALSE, uids |-> uu, task |-> None]
    IN  IF ~has("due_date") THEN failed("KeyError", u)
        ELSE IF truthy(dict["due_date"])
                /\ ~is_iso(dict["due_date"][1]) THEN failed("ValueError", u)
        ELSE IF ~has("name") \/ ~has("description") \/ ~has("id")
             THEN failed("KeyError", u)
        ELSE LET due_date == IF truthy(dict["due_date"])
                             THEN Some(fromisoformat(dict["due_date"][1]))
                             ELSE None
                 fresh == ~truthy(Some(dict["id"]))
                 task_id == IF fresh THEN draw ELSE dict["id"]
                 uu == IF fresh THEN u \cup {draw} ELSE u
             IN  IF fresh /\ draw \in u
                 THEN [err |-> "none", stuck |-> TRUE, uids |-> u, task |-> None]
                 ELSE IF ~has("completed") THEN failed("KeyError", uu)
                 ELSE [err |-> "none", stuck |-> FALSE, uids |-> uu,
                       task |-> Some([Task(dict["name"], dict["description"],
                                           due_date, task_id)
                                      EXCEPT !.completed = dict["completed"]])]

----------------------------------------------------------------------------
(* The tasks file *)

\* Characters of json.dump's text for one object and for an array of them
\* (separators ", " and ": ", strings without escapes).
item_size(dict, k) ==
    IF k \notin DOMAIN dict THEN 0
    ELSE Len(k) + 4 +
         (IF k = "completed" THEN (IF dict[k] THEN 4 ELSE 5)
          ELSE IF k = "due_date"
               THEN (IF dict[k] = None THEN 4 ELSE Len(dict[k][1]) + 2)
          ELSE Len(dict[k]) + 2)

dict_size(dict) ==
    2 + item_size(dict, "id") + item_size(dict, "name")
      + item_size(dict, "description") + item_size(dict, "completed")
      + item_size(dict, "due_date")
      + (IF DOMAIN dict = {} THEN 0 ELSE 2 * (Cardinality(DOMAIN dict) - 1))

RECURSIVE dicts_size(_)
dicts_size(recs) ==
    IF recs = <<>> THEN 0 ELSE dict_size(Head(recs)) + dicts_size(Tail(recs))

json_size(recs) ==
    2 + dicts_size(recs) + (IF recs = <<>> THEN 0 ELSE 2 * (Len(recs) - 1))

\* A file holding exactly json.dump(recs).
json_file(recs) == [kind |-> "json", recs |-> recs, size |-> json_size(recs)]

\* A file that json.load rejects (empty, cut short, or with text after the
\* array), of the given length.
bad_file(size) == [kind |-> "bad", recs |-> <<>>, size |-> size]

no_file == [kind |-> "absent", recs |-> <<>>, size |-> 0]

\* open(path, "w"): the file is created or cut to length 0.
truncated == bad_file(0)

\* Faulty variant: an empty task list is not written, the file stays as open left it.
written_unless_empty(f, recs) ==
    IF recs = <<>> THEN f
    ELSE IF f.size > json_size(recs) THEN bad_file(f.size) ELSE json_file(recs)

\* json.dump(recs, fd) and the close of a descriptor opened with "w": the
\* text is written from offset 0 over whatever the file holds by then, and
\* what lies beyond the text stays.
written(f, recs) ==
    IF f.size > json_size(recs) THEN bad_file(f.size) ELSE json_file(recs)

\* The same write failing after n characters.
cut_short(f, n) ==
    IF n = 0 THEN f ELSE bad_file(IF f.size > n THEN f.size ELSE n)

----------------------------------------------------------------------------
(* Storage: the pure parts *)

\* Faulty variant: the comparison is > instead of >=.
delete_over_due_strict(ts, n) ==
    SelectSeq(ts, LAMBDA task :
        task.due_date = None \/ task.due_date[1] > due_date_threshold(n))

\* Storage.delete_over_due, with n the datetime.now() it reads.
delete_over_due(ts, n) ==
    SelectSeq(ts, LAMBDA task :
        task.due_date = None \/ task.due_date[1] >= due_date_threshold(n))

\* Storage.find_task: the index of the first task with that id, 0 for None.
find_task(ts, task_id) ==
    IF \E i \in 1 .. Len(ts) : ts[i].task_id = task_id
    THEN CHOOSE i \in 1 .. Len(ts) :
            /\ ts[i].task_id = task_id
            /\ \A j \in 1 .. (i - 1) : ts[j].task_id # task_id
    ELSE 0

\* Faulty variant: each task is put in front of the ones loaded before it.
RECURSIVE load_from_reversed(_, _, _, _, _)
load_from_reversed(recs, i, acc, u, draws) ==
    IF i > Len(recs)
    THEN [tasks |-> acc, uids |-> u, err |-> "none", stuck |-> FALSE]
    ELSE LET r == fromdict(recs[i], draws[i], u)
         IN  IF r.stuck \/ r.err # "none"
             THEN [tasks |-> acc, uids |-> r.uids, err |-> r.err, stuck |-> r.stuck]
             ELSE load_from_reversed(recs, i + 1, <<r.task[1]>> \o acc, r.uids, draws)

\* Faulty variant: a record that raises is skipped and the loop goes on.
RECURSIVE load_from_skipping(_, _, _, _, _)
load_from_skipping(recs, i, acc, u, draws) ==
    IF i > Len(recs)
    THEN [tasks |-> acc, uids |-> u, err |-> "none", stuck |-> FALSE]
    ELSE LET r == fromdict(recs[i], draws[i], u)
         IN  IF r.stuck
             THEN [tasks |-> acc, uids |-> r.uids, err |-> r.err, stuck |-> TRUE]
             ELSE IF r.err # "none"
             THEN [load_from_skipping(recs, i + 1, acc, r.uids, draws)
                     EXCEPT !.err = r.err]
             ELSE load_from_skipping(recs, i + 1, Append(acc, r.task[1]),
                                     r.uids, draws)

\* The loop of load_tasks over the parsed array, from record i on: each
\* record goes through Task.fromdict and the first exception ends the loop
\* with the tasks appended so far.  draws[i] is what create_id() returns for
\* record i if fromdict calls it.
RECURSIVE load_from(_, _, _, _, _)
load_from(recs, i, acc, u, draws) ==
    IF i > Len(recs)
    THEN [tasks |-> acc, uids |-> u, err |-> "none", stuck |-> FALSE]
    ELSE LET r == fromdict(recs[i], draws[i], u)
         IN  IF r.stuck \/ r.err # "none"
             THEN [tasks |-> acc, uids |-> r.uids, err |-> r.err, stuck |-> r.stuck]
             ELSE load_from(recs, i + 1, Append(acc, r.task[1]), r.uids, draws)

\* Storage.load_tasks on file f: what self.tasks and uids become and which
\* exception the except clause caught and printed.
load_tasks(f, u, draws) ==
    IF f.kind = "absent"
    THEN [tasks |-> <<>>, uids |-> u, err |-> "FileNotFoundError", stuck |-> FALSE]
    ELSE IF f.kind = "bad"
    THEN [tasks |-> <<>>, uids |-> u, err |-> "JSONDecodeError", stuck |-> FALSE]
    ELSE load_from(f.recs, 1, <<>>, u, draws)

\* [task.todict() for task in self.tasks]
dump(ts) == [i \in 1 .. Len(ts) |-> todict(ts[i])]

----------------------------------------------------------------------------
(* The initial states *)

MaxFileLen == 2     \* records of the file an invocation finds

\* Objects a tasks file may hold: the ones sync writes, and malformed ones
\* (an empty or unparsable due_date, no "completed" key).
GoodRecs ==
    { [id |-> i, name |-> "n1", description |-> "d1", completed |-> FALSE,
       due_date |-> d] :
        i \in IDS, d \in {None, Some(isoformat(1))} }
    \cup
    { [id |-> "bbbbbb", name |-> "n1", description |-> "d1",
       completed |-> TRUE, due_date |-> Some(isoformat(2))] }

OddRecs ==
    { [id |-> "aaaaaa", name |-> "n1", description |-> "d1",
       completed |-> FALSE, due_date |-> Some("")],
      [id |-> "bbbbbb", name |-> "n1", description |-> "d1",
       completed |-> FALSE, due_date |-> Some("tomorrow")],
      [id |-> "aaaaaa", name |-> "n1", description |-> "d1",
       due_date |-> None] }

FileRecs == GoodRecs \cup OddRecs

\* The files found at start hold no id twice: they are files the program
\* wrote while its ids were unique, possibly damaged afterwards.
distinct_ids(recs) ==
    \A i, j \in 1 .. Len(recs) :
        i # j => recs[i]["id"] # recs[j]["id"]

InitFiles ==
    {no_file, bad_file(0)} \cup
    { json_file(recs) :
        recs \in { r \in UNION { [1 .. n -> FileRecs] : n \in 0 .. MaxFileLen } :
                    distinct_ids(r) } }

NoOp == [name |-> "none", task_id |-> "", task_name |-> "", description |-> "",
         due_date |-> None]
NoRet == [status |-> "none", msg |-> "", value |-> None]

Init ==
    /\ file \in InitFiles
    /\ now \in NowInputs
    /\ pc = [p \in Procs |-> IF p = 1 THEN "start" ELSE "off"]
    /\ tasks = [p \in Procs |-> <<>>]
    /\ uids = [p \in Procs |-> {}]
    /\ op = [p \in Procs |-> NoOp]
    /\ ret = [p \in Procs |-> NoRet]
    /\ printed = [p \in Procs |-> "none"]
    /\ retries = [p \in Procs |-> 0]
    /\ budget = [p \in Procs |-> IF p = 1 THEN MaxOps ELSE 0]
    /\ last_writer = 0

----------------------------------------------------------------------------
(* Storage: the operations *)

Ok(value) == [status |-> "ok", msg |-> "", value |-> value]
\* raise RuntimeError(f"Task with id {task_id} was not found")
NotFound == [status |-> "RuntimeError", msg |-> "was not found", value |-> None]
\* raise RuntimeError(f"Error occurred while syncing tasks: {e}")
SyncError == [status |-> "RuntimeError", msg |-> "syncing tasks", value |-> None]

Call(name, task_id, task_name, description, due_date) ==
    [name |-> name, task_id |-> task_id, task_name |-> task_name,
     description |-> description, due_date |-> due_date]

\* A call of an operation by the front end: the invocation is between
\* operations and may start one.
called(p, call) ==
    /\ pc[p] = "idle"
    /\ budget[p] > 0
    /\ budget' = [budget EXCEPT ![p] = @ - 1]
    /\ op' = [op EXCEPT ![p] = call]
    /\ retries' = [retries EXCEPT ![p] = 0]

\* storage = Storage("tasks.json"): the file is created with [] if it does
\* not exist, then load_tasks runs; whatever load_tasks meets, the
\* constructor returns.
Storage(p) ==
    /\ pc[p] = "start"
    /\ LET f == IF file.kind = "absent" THEN json_file(<<>>) ELSE file
       IN  \E draws \in [1 .. Len(f.recs) -> IDS] :
             LET r == load_tasks(f, uids[p], draws)
             IN  /\ ~r.stuck
                 /\ file' = f
                 /\ tasks' = [tasks EXCEPT ![p] = r.tasks]
                 /\ uids' = [uids EXCEPT ![p] = r.uids]
                 /\ printed' = [printed EXCEPT ![p] = r.err]
    /\ pc' = [pc EXCEPT ![p] = "idle"]
    /\ op' = [op EXCEPT ![p] = Call("Storage", "", "", "", None)]
    /\ ret' = [ret EXCEPT ![p] = Ok(None)]
    /\ UNCHANGED <<now, retries, budget, last_writer>>

\* Faulty variant: a failed open puts self.tasks back as it was.
sync_rollback(p, ts) ==
    /\ \/ /\ tasks' = [tasks EXCEPT ![p] = delete_over_due(ts, now)]
          /\ file' = truncated
          /\ pc' = [pc EXCEPT ![p] = "sync_write"]
          /\ ret' = [ret EXCEPT ![p] = NoRet]
       \/ /\ tasks' = tasks
          /\ file' = file
          /\ pc' = [pc EXCEPT ![p] = "idle"]
          /\ ret' = [ret EXCEPT ![p] = SyncError]
    /\ UNCHANGED <<now, printed, last_writer>>

\* Storage.sync up to its open(self.path, "w"), on the sequence ts the
\* operation has made of self.tasks: delete_over_due, then the open, which
\* cuts the file to nothing or raises and leaves it alone.
sync(p, ts) ==
    /\ tasks' = [tasks EXCEPT ![p] = delete_over_due(ts, now)]
    /\ \/ /\ file' = truncated
          /\ pc' = [pc EXCEPT ![p] = "sync_write"]
          /\ ret' = [ret EXCEPT ![p] = NoRet]
       \/ /\ file' = file
          /\ pc' = [pc EXCEPT ![p] = "idle"]
          /\ ret' = [ret EXCEPT ![p] = SyncError]
    /\ UNCHANGED <<now, printed, last_writer>>

\* The rest of Storage.sync: json.dump of the tasks and the close, which
\* either write the whole text or raise part-way; then the operation
\* returns (add_task: the task's id) or the RuntimeError leaves it.
sync_write(p) ==
    /\ pc[p] = "sync_write"
    /\ \/ /\ file' = written(file, dump(tasks[p]))
          /\ last_writer' = p
          /\ ret' = [ret EXCEPT ![p] =
                       Ok(IF op[p].name = "add_task"
                          THEN Some(op[p].task_id) ELSE None)]
       \/ /\ \E n \in {0, json_size(dump(tasks[p])) - 1} :
                file' = cut_short(file, n)
          /\ ret' = [ret EXCEPT ![p] = SyncError]
          /\ UNCHANGED last_writer
    /\ pc' = [pc EXCEPT ![p] = "idle"]
    /\ UNCHANGED <<now, tasks, uids, op, printed, retries, budget>>

\* The add command: Task(name, description, due_date) enters create_id().
add(p, name, description, due_date) ==
    /\ called(p, Call("add_task", "", name, description, due_date))
    /\ pc' = [pc EXCEPT ![p] = "create_id"]
    /\ ret' = [ret EXCEPT ![p] = NoRet]
    /\ UNCHANGED <<file, now, tasks, uids, printed, last_writer>>

\* Faulty variant: the drawn uid is returned without the look into uids.
create_id_unchecked(p, uid) ==
    /\ pc[p] = "create_id"
    /\ uids' = [uids EXCEPT ![p] = @ \cup {uid}]
    /\ op' = [op EXCEPT ![p].task_id = uid]
    /\ sync(p, Append(tasks[p],
                      Task(op[p].task_name, op[p].description,
                           op[p].due_date, uid)))
    /\ UNCHANGED <<retries, budget>>

\* One turn of create_id's loop with uid drawn: a taken uid is drawn again;
\* a free one is added to uids and returned, the Task is built and
\* Storage.add_task appends it and syncs.
create_id(p, uid) ==
    /\ pc[p] = "create_id"
    /\ IF uid \in uids[p]
       THEN /\ retries[p] < MaxRetries
            /\ retries' = [retries EXCEPT ![p] = @ + 1]
            /\ UNCHANGED <<file, now, pc, tasks, uids, op, ret, printed,
                           budget, last_writer>>
       ELSE /\ uids' = [uids EXCEPT ![p] = @ \cup {uid}]
            /\ op' = [op EXCEPT ![p].task_id = uid]
            /\ sync(p, Append(tasks[p],
                              Task(op[p].task_name, op[p].description,
                                   op[p].due_date, uid)))
            /\ UNCHANGED <<retries, budget>>

\* Faulty variant: an id no task has raises the not-found error.
remove_task_checked(p, task_id) ==
    /\ called(p, Call("remove_task", task_id, "", "", None))
    /\ IF \E i \in 1 .. Len(tasks[p]) : tasks[p][i].task_id = task_id
       THEN sync(p, SelectSeq(tasks[p], LAMBDA task : task.task_id # task_id))
       ELSE /\ ret' = [ret EXCEPT ![p] = [status |-> "RuntimeError",
                                          msg |-> "was not found",
                                          value |-> <<>>]]
            /\ UNCHANGED <<file, now, pc, tasks, printed, last_writer>>
    /\ UNCHANGED uids

\* Storage.remove_task
remove_task(p, task_id) ==
    /\ called(p, Call("remove_task", task_id, "", "", None))
    /\ sync(p, SelectSeq(tasks[p], LAMBDA task : task.task_id # task_id))
    /\ UNCHANGED uids

\* Faulty variant: sync runs before the raise.
not_found_synced(p) ==
    /\ ret' = [ret EXCEPT ![p] = NotFound]
    /\ tasks' = [tasks EXCEPT ![p] = delete_over_due(@, now)]
    /\ file' = json_file(dump(delete_over_due(tasks[p], now)))
    /\ UNCHANGED <<now, pc, printed, last_writer>>

\* The raise of complete, uncomplete and add_due_date when find_task
\* returns None.
not_found(p) ==
    /\ ret' = [ret EXCEPT ![p] = NotFound]
    /\ UNCHANGED <<file, now, pc, tasks, printed, last_writer>>

\* Faulty variant: the flag is flipped instead of set.
complete_toggle(p, task_id) ==
    /\ called(p, Call("complete", task_id, "", "", None))
    /\ LET i == find_task(tasks[p], task_id)
       IN  IF i # 0
           THEN sync(p, [tasks[p] EXCEPT ![i].completed = ~@])
           ELSE not_found(p)
    /\ UNCHANGED uids

\* Storage.complete
complete(p, task_id) ==
    /\ called(p, Call("complete", task_id, "", "", None))
    /\ LET i == find_task(tasks[p], task_id)
       IN  IF i # 0
           THEN sync(p, [tasks[p] EXCEPT ![i].completed = TRUE])
           ELSE not_found(p)
    /\ UNCHANGED uids

\* Storage.uncomplete
uncomplete(p, task_id) ==
    /\ called(p, Call("uncomplete", task_id, "", "", None))
    /\ LET i == find_task(tasks[p], task_id)
       IN  IF i # 0
           THEN sync(p, [tasks[p] EXCEPT ![i].completed = FALSE])
           ELSE not_found(p)
    /\ UNCHANGED uids

\* Faulty variant: setting the due date also clears the completed flag.
add_due_date_reopening(p, task_id, due_date) ==
    /\ called(p, Call("add_due_date", task_id, "", "", due_date))
    /\ LET i == find_task(tasks[p], task_id)
       IN  IF i # 0
           THEN sync(p, [tasks[p] EXCEPT ![i].due_date = due_date,
                                         ![i].completed = FALSE])
           ELSE not_found(p)
    /\ UNCHANGED uids

\* Storage.add_due_date
add_due_date(p, task_id, due_date) ==
    /\ called(p, Call("add_due_date", task_id, "", "", due_date))
    /\ LET i == find_task(tasks[p], task_id)
       IN  IF i # 0
           THEN sync(p, [tasks[p] EXCEPT ![i].due_date = due_date])
           ELSE not_found(p)
    /\ UNCHANGED uids

\* The get command: Storage.find_task returns the task or None.
get(p, task_id) ==
    /\ called(p, Call("find_task", task_id, "", "", None))
    /\ LET i == find_task(tasks[p], task_id)
       IN  ret' = [ret EXCEPT ![p] =
                     Ok(IF i # 0 THEN Some(tasks[p][i]) ELSE None)]
    /\ UNCHANGED <<file, now, pc, tasks, uids, printed, last_writer>>

Next ==
    \E p \in Procs :
        \/ Storage(p)
        \/ sync_write(p)
        \/ \E uid \in IDS : create_id(p, uid)
        \/ \E name \in Names, description \in Descriptions, due_date \in DueInputs :
              add(p, name, description, due_date)
        \/ \E task_id \in IDS :
              \/ remove_task(p, task_id)
              \/ complete(p, task_id)
              \/ uncomplete(p, task_id)
              \/ get(p, task_id)
              \/ \E due_date \in DueInputs : add_due_date(p, task_id, due_date)

Spec == Init /\ [][Next]_vars

----------------------------------------------------------------------------
(* Two invocations on one file *)

MaxOpsEach == 1     \* operations of each of two concurrent invocations

\* What the two invocations find: no file, an empty array, one task, or one
\* object with an empty id.
SharedFiles ==
    { no_file, json_file(<<>>),
      json_file(<< [id |-> "aaaaaa", name |-> "n1", description |-> "d1",
                    completed |-> FALSE, due_date |-> None] >>),
      json_file(<< [id |-> "", name |-> "n1", description |-> "d1",
                    completed |-> TRUE, due_date |-> None] >>) }

InitLWW ==
    /\ file \in SharedFiles
    /\ now = 5
    /\ pc = [p \in Procs |-> "start"]
    /\ tasks = [p \in Procs |-> <<>>]
    /\ uids = [p \in Procs |-> {}]
    /\ op = [p \in Procs |-> NoOp]
    /\ ret = [p \in Procs |-> NoRet]
    /\ printed = [p \in Procs |-> "none"]
    /\ retries = [p \in Procs |-> 0]
    /\ budget = [p \in Procs |-> MaxOpsEach]
    /\ last_writer = 0

SpecLWW == InitLWW /\ [][Next]_vars

----------------------------------------------------------------------------
(* Task.todict and Task.fromdict on their own *)

\* The Task objects of a running program: Task.__init__ never leaves an
\* empty task_id (task_id or create_id()).
AllTasks ==
    { [task_id |-> i, name |-> n, description |-> d, completed |-> c,
       due_date |-> due] :
        i \in IDS, n \in Names, d \in Descriptions, c \in BOOLEAN,
        due \in {None} \cup { Some(t) : t \in Times } }

Keys == {"id", "name", "description", "completed", "due_date"}

\* The objects json.load may hand to Task.fromdict: any of the keys may be
\* missing, the id may be empty, the due date may be null, empty, no date
\* at all, or an ISO string.
FullDicts ==
    { [id |-> i, name |-> "n1", description |-> "d1", completed |-> TRUE,
       due_date |-> due] :
        i \in {"aaaaaa", ""},
        due \in {None, Some(""), Some("tomorrow"), Some(isoformat(3))} }

RawDicts == { [k \in K |-> dict[k]] : dict \in FullDicts, K \in SUBSET Keys }

FromDictCall(dict) == [name |-> "fromdict", dict |-> dict]

\* Either a Task is in memory and Task.fromdict(task.todict()) is about to
\* run, or Task.fromdict(dict) is about to run on a parsed object; uids
\* holds any of the ids.
InitCodec ==
    /\ file = no_file
    /\ now = 5
    /\ \E u \in SUBSET IDS : uids = [p \in Procs |-> IF p = 1 THEN u ELSE {}]
    /\ \/ /\ pc = [p \in Procs |-> IF p = 1 THEN "todict" ELSE "off"]
          /\ \E task \in AllTasks :
                tasks = [p \in Procs |-> IF p = 1 THEN <<task>> ELSE <<>>]
          /\ op = [p \in Procs |-> NoOp]
       \/ /\ pc = [p \in Procs |-> IF p = 1 THEN "fromdict" ELSE "off"]
          /\ tasks = [p \in Procs |-> <<>>]
          /\ \E dict \in RawDicts :
                op = [p \in Procs |-> IF p = 1 THEN FromDictCall(dict) ELSE NoOp]
    /\ ret = [p \in Procs |-> NoRet]
    /\ printed = [p \in Procs |-> "none"]
    /\ retries = [p \in Procs |-> 0]
    /\ budget = [p \in Procs |-> 0]
    /\ last_writer = 0

\* task.todict() as the argument of Task.fromdict.
serialize(p) ==
    /\ pc[p] = "todict"
    /\ op' = [op EXCEPT ![p] = FromDictCall(todict(tasks[p][1]))]
    /\ pc' = [pc EXCEPT ![p] = "fromdict"]
    /\ UNCHANGED <<file, now, tasks, uids, ret, printed, retries, budget,
                   last_writer>>

\* Task.fromdict(dict): the Task it returns is kept next to the ones in
\* memory, or the exception it raises is the outcome.
deserialize(p, draw) ==
    /\ pc[p] = "fromdict"
    /\ LET r == fromdict(op[p].dict, draw, uids[p])
       IN  /\ ~r.stuck
           /\ uids' = [uids EXCEPT ![p] = r.uids]
           /\ tasks' = [tasks EXCEPT ![p] =
                          IF r.err = "none" THEN Append(@, r.task[1]) ELSE @]
           /\ ret' = [ret EXCEPT ![p] =
                        IF r.err = "none" THEN Ok(r.task)
                        ELSE [status |-> r.err, msg |-> "", value |-> None]]
    /\ pc' = [pc EXCEPT ![p] = "done"]
    /\ UNCHANGED <<file, now, op, printed, retries, budget, last_writer>>

NextCodec ==
    \E p \in Procs :
        \/ serialize(p)
        \/ \E draw \in IDS : deserialize(p, draw)

SpecCodec == InitCodec /\ [][NextCodec]_vars

----------------------------------------------------------------------------
(* create_id on its own *)

\* Ids random.choices can draw, here five of them.
ManyIDS == {"aaaaaa", "bbbbbb", "cccccc", "dddddd", "eeeeee"}

\* uids holds the ids issued so far, any of them.
InitIds ==
    /\ file = no_file
    /\ now = 5
    /\ pc = [p \in Procs |-> IF p = 1 THEN "idle" ELSE "off"]
    /\ tasks = [p \in Procs |-> <<>>]
    /\ \E u \in SUBSET ManyIDS : uids = [p \in Procs |-> IF p = 1 THEN u ELSE {}]
    /\ op = [p \in Procs |-> NoOp]
    /\ ret = [p \in Procs |-> NoRet]
    /\ printed = [p \in Procs |-> "none"]
    /\ retries = [p \in Procs |-> 0]
    /\ budget = [p \in Procs |-> 0]
    /\ last_writer = 0

\* A call of create_id().
enter_create_id(p) ==
    /\ pc[p] = "idle"
    /\ pc' = [pc EXCEPT ![p] = "create_id"]
    /\ op' = [op EXCEPT ![p] = Call("create_id", "", "", "", None)]
    /\ ret' = [ret EXCEPT ![p] = NoRet]
    /\ retries' = [retries EXCEPT ![p] = 0]
    /\ UNCHANGED <<file, now, tasks, uids, printed, budget, last_writer>>

\* Faulty variant: the uid is returned without uids.add(uid).
draw_unregistered(p, uid) ==
    /\ pc[p] = "create_id"
    /\ IF uid \in uids[p]
       THEN /\ retries' = [retries EXCEPT ![p] =
                             IF @ < MaxRetries THEN @ + 1 ELSE @]
            /\ UNCHANGED <<pc, uids, ret>>
       ELSE /\ pc' = [pc EXCEPT ![p] = "idle"]
            /\ ret' = [ret EXCEPT ![p] = Ok(Some(uid))]
            /\ UNCHANGED <<uids, retries>>
    /\ UNCHANGED <<file, now, tasks, op, printed, budget, last_writer>>

\* One turn of the while True loop of create_id with uid drawn: a taken
\* uid sends the loop round again, as often as it is drawn (retries counts
\* the turns up to MaxRetries and then stays); a free one is added to uids
\* and returned.
draw(p, uid) ==
    /\ pc[p] = "create_id"
    /\ IF uid \in uids[p]
       THEN /\ retries' = [retries EXCEPT ![p] =
                             IF @ < MaxRetries THEN @ + 1 ELSE @]
            /\ UNCHANGED <<pc, uids, ret>>
       ELSE /\ uids' = [uids EXCEPT ![p] = @ \cup {uid}]
            /\ pc' = [pc EXCEPT ![p] = "idle"]
            /\ ret' = [ret EXCEPT ![p] = Ok(Some(uid))]
            /\ UNCHANGED retries
    /\ UNCHANGED <<file, now, tasks, op, printed, budget, last_writer>>

NextIds ==
    \E p \in Procs :
        \/ enter_create_id(p)
        \/ \E uid \in ManyIDS : draw(p, uid)

\* random.choices is fair: an id whose draw would end the loop is drawn
\* at some time.
SpecIds ==
    /\ InitIds
    /\ [][NextIds]_vars
    /\ \A p \in Procs : \A uid \in ManyIDS : WF_vars(draw(p, uid))

----------------------------------------------------------------------------
(* What the properties speak of *)

Mutators == {"add_task", "remove_task", "complete", "uncomplete", "add_due_date"}

\* The last operation of p was a mutating one and has returned normally.
Returned(p) ==
    pc[p] = "idle" /\ ret[p].status = "ok" /\ op[p].name \in Mutators

\* Midnight at the start of (today - 1 day).
YesterdayMidnight == 2 * ((now \div 2) - 1)

Overdue(task) == task.due_date # None /\ task.due_date[1] < YesterdayMidnight

HasId(ts, task_id) == \E i \in 1 .. Len(ts) : ts[i].task_id = task_id

\* The first task of ts with that id, with field `completed` or `due_date`
\* set as the call says.
FirstSet(ts, call) ==
    [i \in 1 .. Len(ts) |->
        IF ts[i].task_id = call.task_id
           /\ \A j \in 1 .. (i - 1) : ts[j].task_id # call.task_id
        THEN CASE call.name = "complete" -> [ts[i] EXCEPT !.completed = TRUE]
               [] call.name = "uncomplete" -> [ts[i] EXCEPT !.completed = FALSE]
               [] call.name = "add_due_date" -> [ts[i] EXCEPT !.due_date = call.due_date]
        ELSE ts[i]]

\* The sequence a mutating call makes of ts before Sync runs.
Mutated(ts, call) ==
    CASE call.name = "add_task" ->
            Append(ts, [task_id |-> call.task_id, name |-> call.task_name,
                        description |-> call.description, completed |-> FALSE,
                        due_date |-> call.due_date])
      [] call.name = "remove_task" ->
            SelectSeq(ts, LAMBDA task : task.task_id # call.task_id)
      [] OTHER -> FirstSet(ts, call)

\* This step of p is a mutating operation reaching its Sync: a call that
\* found its task (or needs none), or create_id returning into add_task.
StartsSync(p) ==
    \/ /\ pc[p] = "idle"
       /\ budget'[p] < budget[p]
       /\ op'[p].name \in Mutators \ {"add_task"}
       /\ op'[p].name = "remove_task" \/ HasId(tasks[p], op'[p].task_id)
    \/ /\ pc[p] = "create_id"
       /\ pc'[p] # "create_id"

----------------------------------------------------------------------------
(* C1: after every successful return of a mutating operation of a single   *)
(* invocation, the file holds the JSON array of the in-memory tasks,       *)
(* element for element in the same order.                                  *)
FileEqualsMemory ==
    \A p \in Procs :
        Returned(p) => /\ file.kind = "json"
                       /\ file.recs = dump(tasks[p])

FileEqualsMemoryWitness ==
    \E p \in Procs :
        /\ Returned(p)
        /\ op[p].name = "add_task"
        /\ Len(tasks[p]) >= 2
        /\ file.recs = dump(tasks[p])

(* C2: every id an Add returns was not among the ids issued before, also   *)
(* when create_id had to draw again; it is the id create_id registered.    *)
AddReturnsFreshId ==
    [][\A p \in Procs :
        /\ (pc[p] = "create_id" /\ pc'[p] # "create_id")
              => /\ op'[p].task_id \notin uids[p]
                 /\ uids'[p] = uids[p] \cup {op'[p].task_id}
        /\ (pc[p] = "sync_write" /\ op[p].name = "add_task"
                /\ ret'[p].status = "ok")
              => ret'[p].value = Some(op[p].task_id)]_vars

AddReturnsFreshIdWitness ==
    \E p \in Procs :
        /\ Returned(p)
        /\ op[p].name = "add_task"
        /\ retries[p] > 0
        /\ Cardinality(uids[p]) >= 2
        /\ ret[p].value = Some(op[p].task_id)

(* C3: no two tasks of a Storage have the same id, also after loading      *)
(* tasks from a file and adding new ones.                                  *)
UniqueTaskIds ==
    \A p \in Procs :
        \A i, j \in 1 .. Len(tasks[p]) :
            i # j => tasks[p][i].task_id # tasks[p][j].task_id

(* C4: after a Sync no task in memory is due before midnight of            *)
(* (today - 1 day), and after one that wrote the file none in the file is. *)
PurgeLaw ==
    \A p \in Procs :
        /\ (op[p].name \in Mutators
              /\ (pc[p] = "sync_write" \/ (pc[p] = "idle" /\ ret[p] # NotFound)))
              => \A i \in 1 .. Len(tasks[p]) : ~Overdue(tasks[p][i])
        /\ Returned(p)
              => /\ file.kind = "json"
                 /\ \A i \in 1 .. Len(file.recs) :
                       \/ file.recs[i]["due_date"] = None
                       \/ /\ is_iso(file.recs[i]["due_date"][1])
                          /\ fromisoformat(file.recs[i]["due_date"][1])
                                >= YesterdayMidnight

\* An overdue task was added and is gone, and a task due exactly at the
\* threshold is still there.
PurgeLawWitness ==
    \E p \in Procs :
        /\ Returned(p)
        /\ op[p].name = "add_task"
        /\ op[p].due_date # None
        /\ op[p].due_date[1] < YesterdayMidnight
        /\ ~HasId(tasks[p], op[p].task_id)
        /\ \E i \in 1 .. Len(tasks[p]) :
              tasks[p][i].due_date = Some(YesterdayMidnight)

(* C5: when the file is missing or is not valid JSON, constructing the     *)
(* Storage fails with an error that reaches the caller.                    *)
LoadFailureSurfaces ==
    \A p \in Procs :
        (op[p].name = "Storage"
            /\ printed[p] \in {"FileNotFoundError", "JSONDecodeError"})
          => ret[p].status # "ok"

(* C6: complete, uncomplete and add_due_date called with an id no task    *)
(* has raise the not-found error and leave the in-memory tasks and the     *)
(* file as they were.                                                      *)
NotFoundLaw ==
    [][\A p \in Procs :
        (/\ pc[p] = "idle"
         /\ budget'[p] < budget[p]
         /\ op'[p].name \in {"complete", "uncomplete", "add_due_date"}
         /\ ~HasId(tasks[p], op'[p].task_id))
          => /\ ret'[p] = NotFound
             /\ pc'[p] = "idle"
             /\ tasks' = tasks
             /\ file' = file]_vars

\* The error was raised while an overdue task loaded from the file was
\* still in memory, and it still is.
NotFoundLawWitness ==
    \E p \in Procs :
        /\ ret[p] = NotFound
        /\ op[p].name \in {"complete", "uncomplete", "add_due_date"}
        /\ ~HasId(tasks[p], op[p].task_id)
        /\ \E i \in 1 .. Len(tasks[p]) : Overdue(tasks[p][i])
        /\ file.recs = dump(tasks[p])

(* C7: the rewrite of the file is atomic: a file that holds a complete     *)
(* JSON array holds a complete JSON array after every step.                *)
AtomicRewrite ==
    [][file.kind = "json" => file'.kind = "json"]_vars

(* C8: when Sync fails, the operation ends with the sync error, the        *)
(* in-memory tasks keep the mutation and the purge, and nothing is tried   *)
(* again.                                                                  *)
SyncFailureKeepsMemory ==
    [][\A p \in Procs :
        /\ StartsSync(p)
              => /\ tasks'[p] = delete_over_due(Mutated(tasks[p], op'[p]), now)
                 /\ pc'[p] = "sync_write" \/ (pc'[p] = "idle" /\ ret'[p] = SyncError)
        /\ (pc[p] = "sync_write" /\ ret'[p].status # "ok")
              => /\ ret'[p] = SyncError
                 /\ tasks'[p] = tasks[p]
                 /\ pc'[p] = "idle"
                 /\ budget'[p] = budget[p]]_vars

\* A failed add: the new task is in memory and the file does not hold it.
SyncFailureKeepsMemoryWitness ==
    \E p \in Procs :
        /\ pc[p] = "idle"
        /\ ret[p] = SyncError
        /\ op[p].name = "add_task"
        /\ HasId(tasks[p], op[p].task_id)
        /\ ~(file.kind = "json" /\ file.recs = dump(tasks[p]))

(* C9: when two invocations have each loaded the whole file, mutated and   *)
(* synced, the file holds exactly the tasks of the one whose Sync wrote    *)
(* last.                                                                   *)
LastWriterWins ==
    (last_writer # 0 /\ \A p \in Procs : printed[p] = "none" /\ Returned(p))
        => /\ file.kind = "json"
           /\ file.recs = dump(tasks[last_writer])

(* C10: a task with no due date or one not before midnight of              *)
(* (today - 1 day) survives every Sync, in its order among the others,     *)
(* unless a Remove names it.                                               *)
PurgeKeepsTheRest ==
    [][\A p \in Procs :
        StartsSync(p)
          => SelectSeq(Mutated(tasks[p], op'[p]), LAMBDA task : ~Overdue(task))
               = SelectSeq(tasks'[p], LAMBDA task : ~Overdue(task))]_vars

\* A Sync has dropped an overdue task and kept, in order, one without a due
\* date and one due exactly at the threshold.
PurgeKeepsTheRestWitness ==
    \E p \in Procs :
        /\ pc[p] = "idle"
        /\ op[p].name = "add_task"
        /\ op[p].due_date # None
        /\ Overdue([due_date |-> op[p].due_date])
        /\ ~HasId(tasks[p], op[p].task_id)
        /\ Len(tasks[p]) = 2
        /\ tasks[p][1].due_date = None
        /\ tasks[p][2].due_date = Some(YesterdayMidnight)

\* This step of p is a call of Complete with the id of a task whose first
\* holder in the sequence is completed already.
CompletesAgain(p) ==
    /\ pc[p] = "idle"
    /\ budget'[p] < budget[p]
    /\ op'[p].name = "complete"
    /\ HasId(tasks[p], op'[p].task_id)
    /\ tasks[p][find_task(tasks[p], op'[p].task_id)].completed

(* C11, as the specification states it: Complete on a task that is         *)
(* completed already does not error and leaves the tasks as they were,     *)
(* the task still among them and still completed.                          *)
CompleteIdempotent ==
    [][\A p \in Procs :
        CompletesAgain(p)
          => /\ ret'[p].status # "RuntimeError"
             /\ tasks'[p] = tasks[p]]_vars

(* C11, amended: Complete on a task that is completed already runs Sync:   *)
(* it leaves in memory exactly the tasks not due before midnight of        *)
(* (today - 1 day), each as it was and in the same order (the task itself  *)
(* too, still completed, unless it is overdue), and it ends normally or    *)
(* with the sync error, never with the not-found error.                    *)
CompleteIdempotentUpToSync ==
    [][\A p \in Procs :
        /\ CompletesAgain(p)
              => /\ tasks'[p] = SelectSeq(tasks[p], LAMBDA task : ~Overdue(task))
                 /\ pc'[p] = "sync_write" \/ (pc'[p] = "idle" /\ ret'[p] = SyncError)
        /\ (pc[p] = "sync_write" /\ op[p].name = "complete")
              => /\ ret'[p] \in {Ok(None), SyncError}
                 /\ tasks'[p] = tasks[p]]_vars

\* The one operation of the run so far was a Complete of the task loaded
\* as completed (the only one that is due on 2024-01-02T00:00:00 from the
\* start), and the task is there, completed.
CompleteIdempotentWitness ==
    \E p \in Procs :
        /\ Returned(p)
        /\ op[p].name = "complete"
        /\ budget[p] = MaxOps - 1
        /\ \E i \in 1 .. Len(tasks[p]) :
              /\ tasks[p][i].task_id = op[p].task_id
              /\ tasks[p][i].completed
              /\ tasks[p][i].due_date = Some(2)
        /\ file.recs = dump(tasks[p])

\* The task an Add call makes, as the caller knows it.
NewTask(call) ==
    [task_id |-> call.task_id, name |-> call.task_name,
     description |-> call.description, completed |-> FALSE,
     due_date |-> call.due_date]

(* C12: Add appends the new task, not completed, behind the tasks that     *)
(* were there, and Sync runs: the tasks afterwards are the former          *)
(* non-overdue tasks in their order, followed by the new task if it is     *)
(* not overdue; when Add returns, it returns the new task's id and the     *)
(* file holds the array of these tasks.                                    *)
AddAppends ==
    [][\A p \in Procs :
        /\ (pc[p] = "create_id" /\ pc'[p] # "create_id")
              => tasks'[p] =
                   SelectSeq(tasks[p], LAMBDA task : ~Overdue(task))
                     \o (IF Overdue(NewTask(op'[p])) THEN <<>>
                         ELSE << NewTask(op'[p]) >>)
        /\ (pc[p] = "sync_write" /\ op[p].name = "add_task"
                /\ ret'[p].status = "ok")
              => /\ ret'[p] = Ok(Some(op[p].task_id))
                 /\ tasks'[p] = tasks[p]
                 /\ file'.kind = "json"
                 /\ file'.recs = dump(tasks[p])]_vars

\* An Add of a task with a due date has returned: the task is the last of
\* at least two, not completed, and the file holds them all.
AddAppendsWitness ==
    \E p \in Procs :
        /\ Returned(p)
        /\ op[p].name = "add_task"
        /\ op[p].due_date # None
        /\ ret[p].value = Some(op[p].task_id)
        /\ Len(tasks[p]) >= 2
        /\ tasks[p][Len(tasks[p])] = NewTask(op[p])
        /\ file.recs = dump(tasks[p])

\* This step of p is a call of Remove.
Removes(p) ==
    /\ pc[p] = "idle"
    /\ budget'[p] < budget[p]
    /\ op'[p].name = "remove_task"

\* What Remove and its Sync leave of ts.
RemovedAndPurged(ts, task_id) ==
    SelectSeq(ts, LAMBDA task : task.task_id # task_id /\ ~Overdue(task))

(* C13, as the specification states it: Remove never errors; it leaves in *)
(* memory the non-overdue tasks with another id, in their order.           *)
RemoveNeverErrors ==
    [][\A p \in Procs :
        /\ Removes(p)
              => /\ ret'[p].status # "RuntimeError"
                 /\ tasks'[p] = RemovedAndPurged(tasks[p], op'[p].task_id)
        /\ (pc[p] = "sync_write" /\ op[p].name = "remove_task")
              => ret'[p].status = "ok"]_vars

(* C13, amended: Remove never raises the not-found error, whether or not   *)
(* a task has the id: it leaves in memory the non-overdue tasks with       *)
(* another id, in their order, and ends normally, the file then holding    *)
(* the array of these tasks and no record with that id, or with the sync   *)
(* error when the open or the write of Sync fails.                         *)
RemoveErrsOnlyInSync ==
    [][\A p \in Procs :
        /\ Removes(p)
              => /\ tasks'[p] = RemovedAndPurged(tasks[p], op'[p].task_id)
                 /\ pc'[p] = "sync_write" \/ (pc'[p] = "idle" /\ ret'[p] = SyncError)
        /\ (pc[p] = "sync_write" /\ op[p].name = "remove_task")
              => /\ ret'[p] \in {Ok(None), SyncError}
                 /\ tasks'[p] = tasks[p]
                 /\ ret'[p].status = "ok"
                      => /\ file'.kind = "json"
                         /\ file'.recs = dump(tasks[p])
                         /\ \A i \in 1 .. Len(file'.recs) :
                               file'.recs[i]["id"] # op[p].task_id]_vars

\* A Remove has returned as the second operation of a run that issued the
\* id it names: no task has that id, in memory or in the file, and another
\* task is still there.
RemoveErrsOnlyInSyncWitness ==
    \E p \in Procs :
        /\ Returned(p)
        /\ op[p].name = "remove_task"
        /\ op[p].task_id \in uids[p]
        /\ ~HasId(tasks[p], op[p].task_id)
        /\ Len(tasks[p]) >= 1
        /\ file.kind = "json"
        /\ file.recs = dump(tasks[p])

\* A record as Sync writes it: the five keys, a non-empty id, and a due
\* date that is null or an ISO string.
WellFormed(rec) ==
    /\ DOMAIN rec = {"id", "name", "description", "completed", "due_date"}
    /\ rec["id"] # ""
    /\ rec["due_date"] = None \/ is_iso(rec["due_date"][1])

\* The task is what the record says, field by field.
Deserialized(task, rec) ==
    /\ task.task_id = rec["id"]
    /\ task.name = rec["name"]
    /\ task.description = rec["description"]
    /\ task.completed = rec["completed"]
    /\ task.due_date = IF rec["due_date"] = None \/ rec["due_date"][1] = ""
                       THEN None
                       ELSE Some(fromisoformat(rec["due_date"][1]))

RoundTrip ==
    [][\A p \in Procs :
        (pc[p] = "fromdict" /\ pc'[p] = "done" /\ tasks[p] # <<>>)
          => /\ ret'[p] = Ok(Some(tasks[p][1]))
             /\ tasks'[p] = <<tasks[p][1], tasks[p][1]>>
             /\ uids'[p] = uids[p]]_vars

\* A completed task with a due date at noon went through the round trip
\* while an id other than its own was issued.
RoundTripWitness ==
    \E p \in Procs :
        /\ pc[p] = "done"
        /\ Len(tasks[p]) = 2
        /\ tasks[p][2] = tasks[p][1]
        /\ tasks[p][1].completed
        /\ tasks[p][1].due_date = Some(7)
        /\ uids[p] # {}
        /\ tasks[p][1].task_id \notin uids[p]
        /\ op[p].dict["due_date"] = Some("2024-01-04T12:00:00")

\* A required field is absent, or due_date is there, is not null and is
\* not an ISO string.
Malformed(dict) ==
    \/ Keys \ DOMAIN dict # {}
    \/ /\ dict["due_date"] # None
       /\ ~is_iso(dict["due_date"][1])

(* C16: Task.fromdict on a mapping that lacks a required field, or whose   *)
(* due_date is not null and not a valid ISO-8601 string (the empty string *)
(* too), raises an error and gives no Task.                                *)
MalformedRecordFails ==
    \A p \in Procs :
        (pc[p] = "done" /\ Malformed(op[p].dict))
          => /\ ret[p].status # "ok"
             /\ tasks[p] = <<>>

(* C17: with a fair draw, a call of create_id made while some id is not    *)
(* issued returns; the id it returns was not issued before the return and  *)
(* is issued after it; and no step takes an id out of the issued set.      *)
CreateIdTerminatesAndRegisters ==
    /\ \A p \in Procs :
          (pc[p] = "create_id" /\ uids[p] # ManyIDS) ~> (pc[p] = "idle")
    /\ [][\A p \in Procs :
            /\ uids[p] \subseteq uids'[p]
            /\ (pc[p] = "create_id" /\ pc'[p] = "idle")
                  => /\ ret'[p].status = "ok"
                     /\ ret'[p].value[1] \notin uids[p]
                     /\ uids'[p] = uids[p] \cup {ret'[p].value[1]}]_vars

\* create_id has returned an id after drawing a taken one, and the issued
\* set holds the id and all but one of the others.
CreateIdWitness ==
    \E p \in Procs :
        /\ pc[p] = "idle"
        /\ op[p].name = "create_id"
        /\ ret[p].status = "ok"
        /\ retries[p] > 0
        /\ ret[p].value[1] \in uids[p]
        /\ Cardinality(uids[p]) = Cardinality(ManyIDS) - 1

\* Some task of ts has this id and this due date.
HasIdAndDue(ts, task_id, due_date) ==
    \E i \in 1 .. Len(ts) :
        ts[i].task_id = task_id /\ ts[i].due_date = due_date

(* C18: when Add has returned an id, a FindById of that id right after     *)
(* returns the added task if and only if its due date is null or not       *)
(* before the purge threshold; and a SetDueDate on an existing task with   *)
(* a date before the threshold, its Sync succeeding, returns normally and  *)
(* leaves the task with its new date neither in memory nor in the file.    *)
FindAfterAdd ==
    [][\A p \in Procs :
        /\ (/\ Returned(p)
            /\ op[p].name = "add_task"
            /\ budget'[p] < budget[p]
            /\ op'[p].name = "find_task"
            /\ op'[p].task_id = op[p].task_id)
              => (ret'[p] = Ok(Some(NewTask(op[p])))
                    <=> ~Overdue(NewTask(op[p])))
        /\ (/\ pc[p] = "sync_write"
            /\ op[p].name = "add_due_date"
            /\ Overdue([due_date |-> op[p].due_date])
            /\ ret'[p].status # "RuntimeError")
              => /\ ret'[p] = Ok(None)
                 /\ ~HasIdAndDue(tasks'[p], op[p].task_id, op[p].due_date)
                 /\ file'.kind = "json"
                 /\ \A i \in 1 .. Len(file'.recs) :
                       ~(/\ file'.recs[i]["id"] = op[p].task_id
                         /\ file'.recs[i]["due_date"]
                              = Some(isoformat(op[p].due_date[1])))]_vars

\* Task.fromdict raises on this record: a key is missing, or the due date
\* is a non-empty string that is no ISO date.
Unloadable(rec) ==
    \/ Keys \ DOMAIN rec # {}
    \/ /\ rec["due_date"] # None
       /\ rec["due_date"][1] # ""
       /\ ~is_iso(rec["due_date"][1])

\* Record k is the first of recs on which Task.fromdict raises.
StopsAt(recs, k) ==
    /\ k \in 1 .. Len(recs)
    /\ Unloadable(recs[k])
    /\ \A j \in 1 .. (k - 1) : ~Unloadable(recs[j])

LoadErrors == {"KeyError", "ValueError"}

(* C19: when record k of the file is the first malformed one, construction *)
(* still returns, with exactly the tasks of records 1 .. k-1 in memory and *)
(* the file untouched; every mutating operation after it leaves in memory  *)
(* its mutation of these tasks, purged, and when it returns normally the   *)
(* file holds the array of the tasks in memory and no malformed record:    *)
(* the records from k on are gone from the file.                           *)
PartialLoadLosesTheRest ==
    [][\A p \in Procs :
        /\ (pc[p] = "start" /\ pc'[p] # "start" /\ file.kind = "json")
              => \A k \in 1 .. Len(file.recs) :
                    StopsAt(file.recs, k)
                      => /\ pc'[p] = "idle"
                         /\ ret'[p].status = "ok"
                         /\ printed'[p] \in LoadErrors
                         /\ file' = file
                         /\ Len(tasks'[p]) = k - 1
                         /\ \A j \in 1 .. (k - 1) :
                               Deserialized(tasks'[p][j], file.recs[j])
        /\ (printed[p] \in LoadErrors /\ StartsSync(p))
              => tasks'[p] = SelectSeq(Mutated(tasks[p], op'[p]),
                                       LAMBDA task : ~Overdue(task))
        /\ (printed[p] \in LoadErrors /\ pc[p] = "sync_write"
                /\ ret'[p].status = "ok")
              => /\ tasks'[p] = tasks[p]
                 /\ file' = json_file(dump(tasks[p]))
                 /\ \A i \in 1 .. Len(file'.recs) : ~Unloadable(file'.recs[i])]_vars

\* Loading stopped at the second record; the first operation, an Add, has
\* returned, and the file holds the first record's task and the new one.
PartialLoadWitness ==
    \E p \in Procs :
        /\ Returned(p)
        /\ printed[p] \in LoadErrors
        /\ budget[p] = MaxOps - 1
        /\ op[p].name = "add_task"
        /\ op[p].task_id = "bbbbbb"
        /\ Len(tasks[p]) = 2
        /\ tasks[p][1].task_id = "aaaaaa"
        /\ tasks[p][2] = NewTask(op[p])
        /\ file = json_file(dump(tasks[p]))

FieldMutators == {"complete", "uncomplete", "add_due_date"}

\* The ids, names and descriptions of ts, in order.
Identity(ts) ==
    [i \in 1 .. Len(ts) |->
        <<ts[i].task_id, ts[i].name, ts[i].description>>]

(* C20: Complete, Uncomplete and SetDueDate on an existing id set the      *)
(* completed flag (the due date) of the first task with that id and        *)
(* nothing else: every task that is not purged keeps its other fields and  *)
(* its place among the others.  No step of an operation changes the id,    *)
(* name or description of a task: outside construction the tasks change    *)
(* only when a mutating operation reaches its Sync, and every task then    *)
(* has the id, name and description of a task of before or is the task     *)
(* just added.  FindById changes neither memory nor the file.              *)
FieldMutatorFrame ==
    [][\A p \in Procs :
        /\ (StartsSync(p) /\ op'[p].name \in FieldMutators)
              => tasks'[p] = SelectSeq(FirstSet(tasks[p], op'[p]),
                                       LAMBDA task : ~Overdue(task))
        /\ (pc[p] # "start" /\ ~StartsSync(p)) => tasks'[p] = tasks[p]
        /\ pc[p] # "start"
              => \A i \in 1 .. Len(tasks'[p]) :
                    \/ \E j \in 1 .. Len(tasks[p]) :
                          Identity(tasks'[p])[i] = Identity(tasks[p])[j]
                    \/ /\ pc[p] = "create_id"
                       /\ i = Len(tasks'[p])
                       /\ Identity(tasks'[p])[i]
                            = <<op'[p].task_id, op[p].task_name, op[p].description>>
        /\ (pc[p] = "idle" /\ budget'[p] < budget[p] /\ op'[p].name = "find_task")
              => /\ tasks' = tasks
                 /\ file' = file
                 /\ pc' = pc]_vars

\* The first operation, a SetDueDate taking the due date off the task
\* loaded as completed, has returned: the task is still completed, has no
\* due date, and stands behind the other task as before.
FieldMutatorFrameWitness ==
    \E p \in Procs :
        /\ Returned(p)
        /\ op[p].name = "add_due_date"
        /\ op[p].due_date = None
        /\ budget[p] = MaxOps - 1
        /\ Len(tasks[p]) = 2
        /\ tasks[p][1].task_id # op[p].task_id
        /\ tasks[p][2] = [task_id |-> op[p].task_id, name |-> "n1",
                          description |-> "d1", completed |-> TRUE,
                          due_date |-> None]
        /\ file = json_file(dump(tasks[p]))

====
